---- MODULE Spec2Model ----
(***************************************************************************)
(* Model of the wholly-sheet row store: SheetSDK.ts (cell codec, tab       *)
(* indexer, remote table client) and WhollySheet.ts (the row store with    *)
(* its key index and its create / update / save / find operations).        *)
(*                                                                         *)
(* JavaScript values are tagged records [t, s, n]: t is the typeof tag     *)
(* ("null" and "date" for null and Date objects), s the string payload     *)
(* (the ISO text of a Date), n the number payload (1 for true; for a Date  *)
(* the identity of the object).  Row objects are functions                 *)
(* from field names to such values.  A reference to a row entry of the     *)
(* store is its position in the row list (0 = undefined).                  *)
(***************************************************************************)
EXTENDS Integers, Sequences, FiniteSets, TLC

\* ------------------------------------------------------------------ bounds
MaxDataRows == 3      \* grid rows below the header row of the parsed tab
MaxInt == 3           \* numbers that cell texts can spell

\* ------------------------------------------------------- JavaScript values
Str(s) == [t |-> "string", s |-> s, n |-> 0]
Num(n) == [t |-> "number", s |-> "", n |-> n]
Undef == [t |-> "undefined", s |-> "", n |-> 0]
NaN == [t |-> "number", s |-> "NaN", n |-> 0]
Bool(b) == [t |-> "boolean", s |-> "", n |-> IF b THEN 1 ELSE 0]
Null == [t |-> "null", s |-> "", n |-> 0]
\* a Date object: its time as ISO text ("" = Invalid Date) and which object it is
DateOf(iso, object) == [t |-> "date", s |-> iso, n |-> object]

\* new Date(-8640000000000000), the one object exported as noDate
noDate == DateOf("-271821-04-20T00:00:00.000Z", 0)

\* !value
Falsy(v) ==
  \/ v.t = "undefined"
  \/ v.t = "null"
  \/ v.t = "boolean" /\ v.n = 0
  \/ v.t = "string" /\ v.s = ""
  \/ v.t = "number" /\ (v.n = 0 \/ v.s = "NaN")

\* value.toString() / String(value), also the coercion of a property key
toString(v) ==
  CASE v.t = "string" -> v.s
    [] v.t = "number" -> IF v.s = "NaN" THEN "NaN" ELSE ToString(v.n)
    [] v.t = "boolean" -> IF v.n = 1 THEN "true" ELSE "false"
    [] v.t = "date" -> IF v.s = "" THEN "Invalid Date" ELSE "Date " \o v.s
    [] OTHER -> "undefined"

\* ------------------------------------------------------------------- codec
NIL == "\\0"

\* stringer without the test for the noDate object
stringer_noDateAsDate(value) ==
  IF value.t \in {"undefined", "null"} THEN NIL
  ELSE IF value.t = "date" THEN value.s
  ELSE toString(value)

\* value.toISOString() of a valid Date is its ISO text
stringer(value) ==
  IF value.t \in {"undefined", "null"} THEN NIL
  ELSE IF value.t = "date"
    THEN IF value = noDate THEN NIL ELSE value.s
  ELSE toString(value)

\* the texts matched by /^([+-]?[1-9]\d*|0)$/ among the texts of the model
IntRange == (0 - MaxInt)..MaxInt

isInt(text) == \E n \in IntRange : ToString(n) = text

parseInt(text) == CHOOSE n \in IntRange : ToString(n) = text

\* the row type of the store: `row` first, then the declared header
rowPosition == "row"

keyColumn == "id"

RowHeader == <<"id", "name">>

Fields == {rowPosition} \cup {RowHeader[i] : i \in 1..Len(RowHeader)}

\* this[key] for a key that may be undeclared
Get(this, key) == IF key \in DOMAIN this THEN this[key] ELSE Undef

\* the texts new Date(text) can read, among the texts of the model
IsoTexts == {"2020-01-01T00:00:00.000Z", noDate.s}

\* boolDefault(value, false) of @looker/sdk-rtl: true for a text that spells
\* true, false for one that spells false and for every other text
TrueTexts == {"true", "t", "yes", "y", "1"}

boolDefault(value, defaultBool) ==
  IF value.t = "undefined" THEN defaultBool
  ELSE IF toString(value) \in TrueTexts THEN TRUE
  ELSE FALSE

\* typeCast that takes every text given to a boolean field for true
typeCast_truthy(this, key, value) ==
  IF Falsy(value) THEN Undef
  ELSE IF Get(this, key).t = "string" THEN Str(toString(value))
  ELSE IF Get(this, key).t = "number"
    THEN IF isInt(toString(value)) THEN Num(parseInt(toString(value)))
         ELSE NaN
  ELSE IF Get(this, key).t = "boolean" THEN Bool(TRUE)
  ELSE IF Get(this, key).t = "date"
    THEN DateOf(IF toString(value) \in IsoTexts THEN toString(value) ELSE "", 1)
  ELSE Str("[object Object]")

\* a Date made by typeCast is a new object (identity 1), never noDate itself
typeCast(this, key, value) ==
  IF Falsy(value) THEN Undef
  ELSE IF Get(this, key).t = "string" THEN Str(toString(value))
  ELSE IF Get(this, key).t = "number"
    THEN IF isInt(toString(value)) THEN Num(parseInt(toString(value)))
         ELSE NaN
  ELSE IF Get(this, key).t = "boolean" THEN Bool(boolDefault(value, FALSE))
  ELSE IF Get(this, key).t = "date"
    THEN DateOf(IF toString(value) \in IsoTexts THEN toString(value) ELSE "", 1)
  ELSE Str("[object Object]")

\* RowModel constructor as used by a two-column row type: row 0, id ''
NewRow(values) ==
  [f \in Fields |->
     IF f = rowPosition
       THEN IF Falsy(Get(values, f)) THEN Num(0) ELSE Get(values, f)
       ELSE IF Falsy(Get(values, f)) THEN Str("") ELSE Get(values, f)]

\* keys().slice(1): the declared fields without `row`
header(this) == RowHeader

\* ------------------------------------------------------------ RowModel.assign
\* A response body is [kind, vals, named, confirmed]: kind "array" carries
\* positional values, kind "object" carries <<key, value>> entries (and
\* `confirmed` says whether updates.updatedRanges is present), kind "none"
\* is a falsy body.
RECURSIVE assignByPosition(_, _, _)
assignByPosition(this, vals, i) ==
  IF i > Len(vals) THEN this
  ELSE LET key == header(this)[i] IN
       assignByPosition([this EXCEPT ![key] = typeCast(this, key, vals[i])],
                        vals, i + 1)

RECURSIVE assignByName(_, _, _)
assignByName(this, named, i) ==
  IF i > Len(named) THEN this
  ELSE LET key == named[i][1] IN
       assignByName(IF key \in DOMAIN this
                      THEN [this EXCEPT ![key] = typeCast(this, key, named[i][2])]
                      ELSE this,
                    named, i + 1)

assign(this, values) ==
  CASE values.kind = "array" -> assignByPosition(this, values.vals, 1)
    [] values.kind = "object" -> assignByName(this, values.named, 1)
    [] OTHER -> this

\* ---------------------------------------------------------------- tab indexer
\* A grid is a sequence of grid rows, a grid row a sequence of formatted
\* values ("" = the cell has no formatted value).

\* a header loop that passes over an empty header cell instead of stopping
RECURSIVE headerPrefix_skipEmpty(_, _)
headerPrefix_skipEmpty(values, i) ==
  IF i > Len(values) THEN <<>>
  ELSE IF values[i] = "" THEN headerPrefix_skipEmpty(values, i + 1)
  ELSE <<values[i]>> \o headerPrefix_skipEmpty(values, i + 1)

RECURSIVE headerPrefix(_, _)
headerPrefix(values, i) ==
  IF i > Len(values) \/ values[i] = "" THEN <<>>
  ELSE <<values[i]>> \o headerPrefix(values, i + 1)

\* the columns of hdr named f that hold a formatted value in grid row r
filled(hdr, r, f) == {i \in 1..Len(hdr) : hdr[i] = f /\ i <= Len(r) /\ r[i] # ""}

\* a raw row that takes the 0-based grid index for its row number
rawRow_gridIndex(hdr, r, rowIndex) ==
  [f \in {rowPosition} \cup {hdr[i] : i \in 1..Len(hdr)} |->
     IF filled(hdr, r, f) # {}
       THEN Str(r[CHOOSE i \in filled(hdr, r, f) :
                    \A j \in filled(hdr, r, f) : j <= i])
     ELSE IF f = rowPosition THEN Num(rowIndex)
     ELSE Undef]

\* the raw row object built for grid row rowIndex (0-based), remote row
\* rowIndex + 1; a field of value Undef is a property that was never assigned
rawRow(hdr, r, rowIndex) ==
  [f \in {rowPosition} \cup {hdr[i] : i \in 1..Len(hdr)} |->
     IF filled(hdr, r, f) # {}
       THEN Str(r[CHOOSE i \in filled(hdr, r, f) :
                    \A j \in filled(hdr, r, f) : j <= i])
     ELSE IF f = rowPosition THEN Num(rowIndex + 1)
     ELSE Undef]

\* the own properties of a raw row
ownKeys(row) == {f \in DOMAIN row : row[f].t # "undefined"}

\* a blank test that looks at the key column only
isBlank_keyOnly(row) == Get(row, "id").t = "undefined"

\* Object.keys(row).length === 1
isBlank(row) == Cardinality(ownKeys(row)) = 1

\* the row number in the message, counted from 0
errorRow_zeroBased(rowIndex) == rowIndex

\* the remote row number in the message of the SheetError
errorRow(rowIndex) == rowIndex + 1

\* The data loop from 0-based rowIndex on; the result is [err, rows].
RECURSIVE indexRows(_, _, _, _)
indexRows(rowData, hdr, keyName, rowIndex) ==
  IF rowIndex >= Len(rowData) THEN [err |-> 0, rows |-> <<>>]
  ELSE LET row == rawRow(hdr, rowData[rowIndex + 1], rowIndex) IN
       IF isBlank(row) THEN [err |-> 0, rows |-> <<>>]
       ELSE IF Falsy(Get(row, keyName))
         THEN [err |-> errorRow(rowIndex), rows |-> <<>>]
       ELSE LET rest == indexRows(rowData, hdr, keyName, rowIndex + 1) IN
            [err |-> rest.err,
             rows |-> IF rest.err # 0 THEN <<>> ELSE <<row>> \o rest.rows]

\* the result is [err, header, rows]; err # 0 is the remote row number named
\* by the SheetError, and then no table is returned
loadTabTable(rowData, keyName) ==
  IF Len(rowData) < 1 THEN [err |-> 0, header |-> <<>>, rows |-> <<>>]
  ELSE LET hdr == headerPrefix(rowData[1], 1)
           body == indexRows(rowData, hdr, keyName, 1)
       IN [err |-> body.err, header |-> hdr, rows |-> body.rows]

\* ------------------------------------------------------------------ row store
\* typeRows of a concrete store: one typed row per raw row, in order
typeRows(rows) == [i \in 1..Len(rows) |-> NewRow(rows[i])]

\* Array.prototype.join(): the names with a comma between them
RECURSIVE join(_)
join(names) ==
  IF names = <<>> THEN ""
  ELSE IF Len(names) = 1 THEN names[1]
  ELSE names[1] \o "," \o join(Tail(names))

\* true when checkHeader throws: the joined texts differ
checkHeader(rows, tableHeader) ==
  Len(rows) # 0 /\ join(header(rows[1])) # join(tableHeader)

nextRow(rows) == Len(rows)

\* createIndex with a loop that stops one row short
createIndex_skipLast(rows) ==
  [k \in {toString(rows[i][keyColumn]) : i \in 1..(Len(rows) - 1)} |->
     CHOOSE i \in 1..(Len(rows) - 1) :
       /\ toString(rows[i][keyColumn]) = k
       /\ \A j \in 1..(Len(rows) - 1) : toString(rows[j][keyColumn]) = k => j <= i]

\* createIndex that keeps the first row of a key instead of the last
createIndex_keepFirst(rows) ==
  [k \in {toString(rows[i][keyColumn]) : i \in 1..Len(rows)} |->
     CHOOSE i \in 1..Len(rows) :
       /\ toString(rows[i][keyColumn]) = k
       /\ \A j \in 1..Len(rows) : toString(rows[j][keyColumn]) = k => i <= j]

\* index: property key -> reference to a row entry (its position in rows);
\* a later row with the same key replaces an earlier one
createIndex(rows) ==
  [k \in {toString(rows[i][keyColumn]) : i \in 1..Len(rows)} |->
     CHOOSE i \in 1..Len(rows) :
       /\ toString(rows[i][keyColumn]) = k
       /\ \A j \in 1..Len(rows) : toString(rows[j][keyColumn]) = k => j <= i]

\* values(model): the cell texts in table.header order
values(tableHeader, model) ==
  [i \in 1..Len(tableHeader) |-> stringer(Get(model, tableHeader[i]))]

\* checkId that only notices a missing key, not an empty one
checkId_undefinedOnly(model) == Get(model, keyColumn).t = "undefined"

\* true when checkId throws
checkId(model) == Falsy(Get(model, keyColumn))

\* save dispatches to update when model.row is truthy
saveUpdates(model) == ~Falsy(model[rowPosition])

\* rows.find that returns the last match
scanFind_last(rows, key, value) ==
  IF \E i \in 1..Len(rows) : Get(rows[i], key) = value
    THEN CHOOSE i \in 1..Len(rows) :
           /\ Get(rows[i], key) = value
           /\ \A j \in 1..Len(rows) : Get(rows[j], key) = value => j <= i
    ELSE 0

\* rows.find(r => r[key] === value): position of the first match, 0 if none
scanFind(rows, key, value) ==
  IF \E i \in 1..Len(rows) : Get(rows[i], key) = value
    THEN CHOOSE i \in 1..Len(rows) :
           /\ Get(rows[i], key) = value
           /\ \A j \in 1..Len(rows) : Get(rows[j], key) = value => i <= j
    ELSE 0

\* members that the index object inherits from Object.prototype
InheritedKeys == {"constructor", "toString", "valueOf", "hasOwnProperty"}

\* a result of find that is no row entry: an inherited member of the index
Inherited == 0 - 1

\* find that does not default the column of a number to `row`
find_noRowDefault(rows, index, value, columnName) ==
  IF Falsy(value) THEN 0
  ELSE LET key == IF columnName # "" THEN columnName ELSE keyColumn
       IN IF columnName = keyColumn
            THEN IF toString(value) \in DOMAIN index THEN index[toString(value)]
                 ELSE IF toString(value) \in InheritedKeys THEN Inherited
                 ELSE 0
            ELSE scanFind(rows, key, value)

\* find(value, columnName); columnName = "" when the argument is omitted
find(rows, index, value, columnName) ==
  IF Falsy(value) THEN 0
  ELSE LET key == IF value.t = "number" /\ columnName = "" THEN rowPosition
                  ELSE IF columnName # "" THEN columnName ELSE keyColumn
       IN IF columnName = keyColumn
            THEN IF toString(value) \in DOMAIN index THEN index[toString(value)]
                 ELSE IF toString(value) \in InheritedKeys THEN Inherited
                 ELSE 0
            ELSE scanFind(rows, key, value)

\* ------------------------------------------------------------ remote tab
\* The remote tab is a function from remote row numbers to the cell texts of
\* that row (<<>> = blank row); row 1 holds the header.
\* the header row, the parsed data rows and room for one appended row
RemoteRows == 1..(MaxDataRows + 2)

lastDataRow(tab) ==
  IF \E r \in RemoteRows : tab[r] # <<>>
    THEN CHOOSE r \in RemoteRows :
           tab[r] # <<>> /\ \A q \in RemoteRows : tab[q] # <<>> => q <= r
    ELSE 0

\* spreadsheets.values.update: overwrite the range starting at `row`
remoteUpdate(tab, row, vals) ==
  IF row \in RemoteRows THEN [tab EXCEPT ![row] = vals] ELSE tab

\* spreadsheets.values.append with INSERT_ROWS: the values land in the row
\* after the last row of data, whatever row the range names
remoteAppend(tab, row, vals) ==
  IF lastDataRow(tab) + 1 \in RemoteRows
    THEN [tab EXCEPT ![lastDataRow(tab) + 1] = vals] ELSE tab

\* ------------------------------------------------------------------ inputs
HeaderRows == {<<"id", "name">>, <<"id">>}

DataRows == {<<"a", "n">>, <<"2">>}

RECURSIVE Grids(_)
Grids(n) ==
  IF n = 0 THEN {<<>>}
  ELSE Grids(n - 1) \cup
       {g \o <<d>> : g \in {h \in Grids(n - 1) : Len(h) = n - 1}, d \in DataRows}

Tabs == {<<h>> \o g : h \in HeaderRows, g \in Grids(MaxDataRows)}

\* row numbers of the callers' records: not persisted, the header row, the
\* first data row
ModelRows == {0, 1, 2}

Models ==
  {[row |-> Num(r), id |-> k, name |-> Str("m")] :
     r \in ModelRows, k \in {Str(""), Str("a")}}

NoBody == [kind |-> "none", vals |-> <<>>, named |-> <<>>, confirmed |-> FALSE]

ArrayBody(v) == [kind |-> "array", vals |-> v, named |-> <<>>, confirmed |-> FALSE]

ObjectBody(nm, c) == [kind |-> "object", vals |-> <<>>, named |-> nm, confirmed |-> c]

\* bodies answering an update: nothing, the row's values (a changed key, an
\* emptied key), an object that names no field of the row
UpdateBodies ==
  {NoBody, ArrayBody(<<Str("c")>>), ArrayBody(<<Str("")>>), ObjectBody(<<>>, FALSE)}

\* bodies answering an append: an object with or without updates.updatedRanges,
\* one that also names the row, and a bare array
AppendBodies ==
  {ObjectBody(<<>>, TRUE), ObjectBody(<<>>, FALSE),
   ObjectBody(<< <<"row", Str("3")>> >>, TRUE), ArrayBody(<<Str("c")>>)}

LookupValues == {Str("a"), Str("2"), Num(2), Str("constructor")}

\* what the transport hands back: a failed request, or a success with a body
NoAnswer == [ok |-> FALSE, body |-> NoBody]

\* a request that failed carries a body as well
FailedAnswers == {NoAnswer, [ok |-> FALSE, body |-> ArrayBody(<<Str("c")>>)]}

LookupColumns == {"", keyColumn}

\* <<value, columnName>> of the lookups by another column and by row number
ScanLookups ==
  {<<Str("n"), "name">>, <<Str(""), "name">>, <<Str("m"), "name">>,
   <<Num(3), "">>, <<Num(1), "">>, <<Num(0), "">>}

\* ------------------------------------------------------------------- state
VARIABLES
  tableHeader,  \* table.header of the parsed table the store was built from
  rows,         \* WhollySheet.rows
  index,        \* WhollySheet.index
  remote,       \* the remote tab
  last,         \* the last call: its arguments, the requests it issued, its end
  pending       \* the update calls that wait at `await this.sheets.updateRow`

vars == <<tableHeader, rows, index, remote, last, pending>>

\* no call waits: the calls of the caller are serialized
NonePending == <<>>

NoRequests == <<>>

NoValues == [f \in {} |-> Undef]

\* state after `new` on the table parsed from a tab: every call of the
\* constructor that returns (loadTabTable and checkHeader did not throw)
Init ==
  \E tab \in Tabs :
    LET table == loadTabTable(tab, keyColumn)
        typed == typeRows(table.rows)
    IN /\ table.err = 0
       /\ ~checkHeader(typed, table.header)
       /\ tableHeader = table.header
       /\ rows = typed
       /\ index = createIndex(typed)
       /\ remote = [r \in RemoteRows |-> IF r <= Len(tab) THEN tab[r] ELSE <<>>]
       /\ last = [op |-> "new", entry |-> "new", outcome |-> "ok",
                  model |-> NewRow(NoValues), record |-> NewRow(NoValues),
                  value |-> Undef, column |-> "", answer |-> "none",
                  requests |-> NoRequests, ret |-> 0]
       /\ pending = NonePending

\* what came back for the request of a call: "none" when no request was
\* issued, "failed" for !raw.ok, else whether the body confirms updated ranges
answerKind(reqs, ok, response) ==
  IF reqs = NoRequests THEN "none"
  ELSE IF ~ok THEN "failed"
  ELSE IF response.kind = "object" /\ response.confirmed THEN "confirmed"
  ELSE "unconfirmed"

\* ----------------------------------------------------------------- create
\* create that only refuses negative rows
createRowCheck_negative(model) == model[rowPosition].n < 0

\* `model.row !== 0`
createRowCheck(model) == model[rowPosition] # Num(0)

\* createRow that is content with any object for a response
createRowThrows_lax(response) == response.kind # "object"

\* createRow throws unless response.updates.updatedRanges is there
createRowThrows(response) ==
  ~(response.kind = "object" /\ response.confirmed)

createRequest(hdr, rs, model) ==
  [kind |-> "append", row |-> nextRow(rs), values |-> values(hdr, model)]

\* how create(model) ends when the transport answers (ok, response)
createOutcome(model, ok, response) ==
  IF checkId(model) \/ createRowCheck(model) THEN "SheetError"
  ELSE IF ~ok \/ createRowThrows(response) THEN "SheetError"
  ELSE "ok"

createRequests(hdr, rs, model) ==
  IF checkId(model) \/ createRowCheck(model) THEN NoRequests
  ELSE <<createRequest(hdr, rs, model)>>

\* rows after create: the push of the model is commented out in the source.
\* The remote tab takes the appended row exactly when the answer confirms
\* updated ranges.
rowsAfterCreate(rs, model, ok, response) == rs

create(entry, model, ok, response) ==
  LET outcome == createOutcome(model, ok, response)
      reqs == createRequests(tableHeader, rows, model)
  IN /\ outcome = "ok" => lastDataRow(remote) + 1 \in RemoteRows
     /\ rows' = rowsAfterCreate(rows, model, ok, response)
     /\ index' = IF outcome = "ok" THEN createIndex(rows') ELSE index
     /\ remote' = IF outcome = "ok"
                    THEN remoteAppend(remote, reqs[1].row, reqs[1].values)
                    ELSE remote
     /\ last' = [op |-> "create", entry |-> entry, outcome |-> outcome,
                 model |-> model,
                 record |-> IF outcome = "ok" THEN assign(model, response)
                            ELSE model,
                 value |-> Undef, column |-> "",
                 answer |-> answerKind(reqs, ok, response),
                 requests |-> reqs, ret |-> 0]
     /\ UNCHANGED <<tableHeader, pending>>

\* ----------------------------------------------------------------- update
\* `!model.row`
updateRowCheck(model) == Falsy(model[rowPosition])

\* update that sends the 0-based position instead of the row number
updateRequest_zeroBased(hdr, model) ==
  [kind |-> "update", row |-> model[rowPosition].n - 1, values |-> values(hdr, model)]

updateRequest(hdr, model) ==
  [kind |-> "update", row |-> model[rowPosition].n, values |-> values(hdr, model)]

\* this.rows[model.row]: the entry at JavaScript index model.row, 0 when
\* there is none
updateTarget(rs, model) ==
  IF model[rowPosition].n + 1 \in 1..Len(rs) THEN model[rowPosition].n + 1 ELSE 0

updateOutcome(rs, model, ok) ==
  IF checkId(model) \/ updateRowCheck(model) THEN "SheetError"
  ELSE IF ~ok THEN "SheetError"
  ELSE IF updateTarget(rs, model) = 0 THEN "TypeError"
  ELSE "ok"

updateRequests(hdr, model) ==
  IF checkId(model) \/ updateRowCheck(model) THEN NoRequests
  ELSE <<updateRequest(hdr, model)>>

\* update that assigns the body of the answer without looking at raw.ok
rowsAfterUpdate_ignoreFailure(rs, model, ok, response) ==
  IF updateOutcome(rs, model, TRUE) = "ok"
    THEN [rs EXCEPT ![updateTarget(rs, model)] = assign(@, response)]
    ELSE rs

rowsAfterUpdate(rs, model, ok, response) ==
  IF updateOutcome(rs, model, ok) = "ok"
    THEN [rs EXCEPT ![updateTarget(rs, model)] = assign(@, response)]
    ELSE rs

update(entry, model, ok, response) ==
  LET outcome == updateOutcome(rows, model, ok)
      reqs == updateRequests(tableHeader, model)
  IN /\ rows' = rowsAfterUpdate(rows, model, ok, response)
     /\ index' = IF outcome = "ok" THEN createIndex(rows') ELSE index
     /\ remote' = IF reqs # NoRequests /\ ok
                    THEN remoteUpdate(remote, reqs[1].row, reqs[1].values)
                    ELSE remote
     /\ last' = [op |-> "update", entry |-> entry, outcome |-> outcome,
                 model |-> model, record |-> model,
                 value |-> Undef, column |-> "",
                 answer |-> answerKind(reqs, ok, response),
                 requests |-> reqs,
                 ret |-> IF outcome = "ok" THEN updateTarget(rows, model) ELSE 0]
     /\ UNCHANGED <<tableHeader, pending>>

\* ---------------------------------------------------------------- actions
\* the transport answers only the requests that were issued
AnswersTo(reqs) ==
  IF reqs = NoRequests THEN {NoAnswer}
  ELSE FailedAnswers \cup
       {[ok |-> TRUE, body |-> b] :
          b \in IF reqs[1].kind = "append" THEN AppendBodies ELSE UpdateBodies}

Create == \E m \in Models :
            \E a \in AnswersTo(createRequests(tableHeader, rows, m)) :
              create("create", m, a.ok, a.body)

Update == \E m \in Models :
            \E a \in AnswersTo(updateRequests(tableHeader, m)) :
              update("update", m, a.ok, a.body)

Save == \E m \in Models :
          IF saveUpdates(m)
            THEN \E a \in AnswersTo(updateRequests(tableHeader, m)) :
                   update("save", m, a.ok, a.body)
            ELSE \E a \in AnswersTo(createRequests(tableHeader, rows, m)) :
                   create("save", m, a.ok, a.body)

Find == \E v \in LookupValues, c \in LookupColumns :
          /\ last' = [op |-> "find", entry |-> "find", outcome |-> "ok",
                      model |-> NewRow(NoValues), record |-> NewRow(NoValues),
                      value |-> v, column |-> c, answer |-> "none",
                      requests |-> NoRequests,
                      ret |-> find(rows, index, v, c)]
          /\ UNCHANGED <<tableHeader, rows, index, remote, pending>>

\* find by a column that is not the key, and by row number
FindBy == \E p \in ScanLookups :
            /\ last' = [op |-> "find", entry |-> "find", outcome |-> "ok",
                        model |-> NewRow(NoValues), record |-> NewRow(NoValues),
                        value |-> p[1], column |-> p[2], answer |-> "none",
                        requests |-> NoRequests,
                        ret |-> find(rows, index, p[1], p[2])]
            /\ UNCHANGED <<tableHeader, rows, index, remote, pending>>

Next == Create \/ Update \/ Save \/ Find \/ FindBy

Spec == Init /\ [][Next]_vars

\* ------------------------------------------------------ parsing one tab
\* The grid of a tab is read once; `remote` holds the grid, tableHeader and
\* rows the table returned, last the end of the call.
MaxGridRows == 3

\* first rows of a grid: a full header, columns right of an empty header cell,
\* the key in the second column, an empty first cell, no cell at all
ParseHeaderRows ==
  {<<"id", "name">>, <<"id", "name", "", "x">>, <<"id", "", "name">>,
   <<"name", "id">>, <<"", "id">>, <<>>}

\* data rows: complete, key only, no key, key in the second column, cells
\* right of the header only, no cell with a value, no cell at all
ParseDataRows ==
  {<<"a", "n">>, <<"2">>, <<"", "n">>, <<"", "a">>, <<"a", "n", "", "z">>,
   <<"", "", "", "z">>, <<"", "">>, <<>>}

RECURSIVE ParseGrids(_)
ParseGrids(n) ==
  IF n = 0 THEN {<<>>}
  ELSE ParseGrids(n - 1) \cup
       {g \o <<d>> : g \in {h \in ParseGrids(n - 1) : Len(h) = n - 1},
                     d \in ParseDataRows}

\* tab.data[0].rowData: no row at all, or a first row and data rows
ParseTabs ==
  {<<>>} \cup {<<h>> \o g : h \in ParseHeaderRows, g \in ParseGrids(MaxGridRows)}

InitParse ==
  /\ remote \in ParseTabs
  /\ tableHeader = <<>>
  /\ rows = <<>>
  /\ index = <<>>
  /\ last = [op |-> "new", entry |-> "new", outcome |-> "ok",
             model |-> NewRow(NoValues), record |-> NewRow(NoValues),
             value |-> Undef, column |-> "", answer |-> "none",
             requests |-> NoRequests, ret |-> 0]
  /\ pending = NonePending

\* loadTabTable(tab): ret is the row number of the message when it throws
Parse ==
  /\ last.op = "new"
  /\ LET table == loadTabTable(remote, keyColumn) IN
       /\ tableHeader' = IF table.err = 0 THEN table.header ELSE tableHeader
       /\ rows' = IF table.err = 0 THEN table.rows ELSE rows
       /\ last' = [last EXCEPT !.op = "parse", !.entry = "loadTabTable",
                               !.outcome = IF table.err = 0 THEN "ok"
                                           ELSE "SheetError",
                               !.ret = table.err]
  /\ UNCHANGED <<index, remote, pending>>

SpecParse == InitParse /\ [][Parse]_vars

\* ------------------------------------------------------ the codec alone
\* One value is encoded for a cell and the text is decoded into a field;
\* last holds the value, the current value of the receiving field, the text
\* and the decoded value.
CodecValues ==
  {Str(""), Str("a"), Str("0"), Str("-1"), Str("true"), Str("false"), Str(NIL)}
    \cup {Num(n) : n \in IntRange}
    \cup {Bool(TRUE), Bool(FALSE), Undef, Null,
          noDate, DateOf(noDate.s, 1), DateOf("2020-01-01T00:00:00.000Z", 1)}

\* current values of the receiving field: one of each type, and undefined
CodecFields ==
  {Str(""), Num(0), Bool(FALSE), DateOf("2020-01-01T00:00:00.000Z", 1), Undef}

InitCodec ==
  /\ last \in [op : {"new"}, value : CodecValues, field : CodecFields,
               text : {""}, ret : {Undef}]
  /\ tableHeader = <<>>
  /\ rows = <<>>
  /\ index = <<>>
  /\ remote = <<>>
  /\ pending = NonePending

\* stringer(value)
Encode ==
  /\ last.op = "new"
  /\ last' = [last EXCEPT !.op = "encode", !.text = stringer(last.value)]
  /\ UNCHANGED <<tableHeader, rows, index, remote, pending>>

\* this.typeCast(key, text) on an object whose field `key` holds last.field
Decode ==
  /\ last.op = "encode"
  /\ last' = [last EXCEPT !.op = "decode",
                          !.ret = typeCast([f \in {"key"} |-> last.field],
                                           "key", Str(last.text))]
  /\ UNCHANGED <<tableHeader, rows, index, remote, pending>>

NextCodec == Encode \/ Decode

SpecCodec == InitCodec /\ [][NextCodec]_vars

\* ------------------------------------------- update calls in flight together
\* Two calls of update on one store.  A call runs up to its await
\* (UpdateBegin), the remote handles its request (Serve), and the call resumes
\* with the answer (UpdateEnd); pending maps a call to its stage, so the
\* requests are handled and the answers arrive in any order.
Calls == {"first", "second"}

begun == DOMAIN pending

ended == {c \in begun : pending[c].stage = "ended"}

InitRace == Init

\* checkId, the row check, values() and the request, up to the await
UpdateBegin(c, model) ==
  LET reqs == updateRequests(tableHeader, model)
      call == [model |-> model,
               stage |-> IF reqs = NoRequests THEN "ended" ELSE "sent",
               outcome |-> IF reqs = NoRequests THEN "SheetError" ELSE "",
               ok |-> FALSE, body |-> NoBody,
               order |-> IF reqs = NoRequests THEN Cardinality(ended) + 1 ELSE 0,
               raced |-> \E d \in begun : pending[d].stage # "ended"]
  IN /\ c \notin begun
     /\ pending' = [d \in begun \cup {c} |->
                      IF d = c THEN call
                      ELSE IF pending[d].stage # "ended" /\ reqs # NoRequests
                        THEN [pending[d] EXCEPT !.raced = TRUE]
                      ELSE pending[d]]
     /\ last' = [last EXCEPT !.op = "update", !.entry = "begin",
                             !.outcome = call.outcome, !.model = model,
                             !.record = model, !.requests = reqs,
                             !.answer = "none", !.ret = 0]
     /\ UNCHANGED <<tableHeader, rows, index, remote>>

\* the remote handles the PUT of call c and answers it
Serve(c, ok, response) ==
  /\ c \in begun /\ pending[c].stage = "sent"
  /\ pending' = [pending EXCEPT ![c].stage = "served", ![c].ok = ok,
                                ![c].body = response]
  /\ remote' = IF ok
                 THEN LET req == updateRequest(tableHeader, pending[c].model)
                      IN remoteUpdate(remote, req.row, req.values)
                 ELSE remote
  /\ UNCHANGED <<tableHeader, rows, index, last>>

\* the call resumes after the await: request() throws unless raw.ok, then
\* this.rows[model.row].assign(result) and createIndex()
UpdateEnd(c) ==
  /\ c \in begun /\ pending[c].stage = "served"
  /\ LET call == pending[c]
         outcome == updateOutcome(rows, call.model, call.ok)
     IN /\ rows' = rowsAfterUpdate(rows, call.model, call.ok, call.body)
        /\ index' = IF outcome = "ok" THEN createIndex(rows') ELSE index
        /\ pending' = [pending EXCEPT ![c].stage = "ended",
                                      ![c].outcome = outcome,
                                      ![c].order = Cardinality(ended) + 1]
        /\ last' = [last EXCEPT !.op = "update", !.entry = "end",
                                !.outcome = outcome, !.model = call.model,
                                !.record = call.model,
                                !.requests = updateRequests(tableHeader, call.model),
                                !.answer = answerKind(updateRequests(tableHeader, call.model),
                                                      call.ok, call.body),
                                !.ret = IF outcome = "ok"
                                          THEN updateTarget(rows, call.model) ELSE 0]
  /\ UNCHANGED <<tableHeader, remote>>

NextRace ==
  \/ \E c \in Calls, m \in Models : UpdateBegin(c, m)
  \/ \E c \in Calls, a \in FailedAnswers \cup {[ok |-> TRUE, body |-> b] : b \in UpdateBodies} :
       Serve(c, a.ok, a.body)
  \/ \E c \in Calls : UpdateEnd(c)

SpecRace == InitRace /\ [][NextRace]_vars

\* ------------------------------------------------- constructing a store
\* The constructor is given a table: tableHeader and rows hold table.header
\* and table.rows, and Construct runs typeRows, checkHeader and createIndex.
TableHeaders ==
  {<<"id", "name">>, <<"id,name">>, <<"id">>, <<"name", "id">>, <<>>}

\* the raw rows of a table: a key, and a name or none
RawCells == {<<"a", Str("n")>>, <<"2", Undef>>, <<"a", Undef>>}

RECURSIVE TableRows(_)
TableRows(n) ==
  IF n = 0 THEN {<<>>}
  ELSE TableRows(n - 1) \cup
       {t \o <<[row |-> Num(n + 1), id |-> Str(c[1]), name |-> c[2]]>> :
          t \in {u \in TableRows(n - 1) : Len(u) = n - 1}, c \in RawCells}

InitConstruct ==
  /\ tableHeader \in TableHeaders
  /\ rows \in TableRows(MaxGridRows)
  /\ index = <<>>
  /\ remote = <<>>
  /\ last = [op |-> "table", entry |-> "table", outcome |-> "ok",
             model |-> NewRow(NoValues), record |-> NewRow(NoValues),
             value |-> Undef, column |-> "", answer |-> "none",
             requests |-> NoRequests, ret |-> 0]
  /\ pending = NonePending

\* new WhollySheet(sheets, name, table): when checkHeader throws no store
\* exists, and rows and index stay as they were
Construct ==
  /\ last.op = "table"
  /\ LET typed == typeRows(rows)
         thrown == checkHeader(typed, tableHeader)
     IN /\ rows' = IF thrown THEN rows ELSE typed
        /\ index' = IF thrown THEN index ELSE createIndex(typed)
        /\ last' = [last EXCEPT !.op = "new", !.entry = "new",
                                !.outcome = IF thrown THEN "SheetError" ELSE "ok"]
  /\ UNCHANGED <<tableHeader, remote, pending>>

SpecConstruct == InitConstruct /\ [][Construct]_vars

\* ------------------------------------------------- assigning a record twice
\* One record of the row type, rows[1], is assigned value lists for its
\* header one after the other; last.done holds the lists in order.
AssignTexts == {"", "c", "d"}

\* a value for each header column, as a positional array and as a named mapping
AssignBodies ==
  {ArrayBody(<<Str(a), Str(b)>>) : a, b \in AssignTexts}
    \cup {ObjectBody(<< <<"id", Str(a)>>, <<"name", Str(b)>> >>, FALSE) :
            a, b \in AssignTexts}

Assignments == {"first", "second"}

InitAssign ==
  /\ rows = <<NewRow(NoValues)>>
  /\ last = [op |-> "new", done |-> <<>>]
  /\ tableHeader = RowHeader
  /\ index = <<>>
  /\ remote = <<>>
  /\ pending = NonePending

\* record.assign(values)
Assign ==
  \E body \in AssignBodies :
    /\ Len(last.done) < Cardinality(Assignments)
    /\ rows' = <<assign(rows[1], body)>>
    /\ last' = [op |-> "assign", done |-> Append(last.done, body)]
    /\ UNCHANGED <<tableHeader, index, remote, pending>>

SpecAssign == InitAssign /\ [][Assign]_vars

\* ================================================================== claims
keyOf(row) == toString(Get(row, keyColumn))

\* column of the key in the remote rows
keyCell == CHOOSE i \in 1..Len(RowHeader) : RowHeader[i] = keyColumn

entriesAt(rs, r) == {i \in 1..Len(rs) : rs[i][rowPosition] = Num(r)}

\* rows and remote tab agree: one entry per remote data row, same row number
\* and same key; no entry without a remote row
Consistent(rs, tab) ==
  /\ \A r \in RemoteRows :
       (r >= 2 /\ tab[r] # <<>>) =>
         /\ Cardinality(entriesAt(rs, r)) = 1
         /\ \A i \in entriesAt(rs, r) : stringer(rs[i][keyColumn]) = tab[r][keyCell]
  /\ \A i \in 1..Len(rs) :
       \E r \in RemoteRows : r >= 2 /\ tab[r] # <<>> /\ rs[i][rowPosition] = Num(r)

succeeded(l) == l.op \in {"create", "update"} /\ l.outcome = "ok"

\* C1: a successful create or update takes a store that is consistent with
\* the remote tab to a store that is consistent with the remote tab.
C1_StaysConsistent ==
  [][(Consistent(rows, remote) /\ succeeded(last')) => Consistent(rows', remote')]_vars

\* C2: right after construction and right after a successful create or
\* update the key index is the mapping derived from the row list: every row's
\* key is bound to a row with that key, and every key of the index is the key
\* of some row.
indexDerived(rs, idx) ==
  /\ \A i \in 1..Len(rs) :
       /\ keyOf(rs[i]) \in DOMAIN idx
       /\ idx[keyOf(rs[i])] \in 1..Len(rs)
       /\ keyOf(rs[idx[keyOf(rs[i])]]) = keyOf(rs[i])
  /\ \A k \in DOMAIN idx : \E i \in 1..Len(rs) : keyOf(rs[i]) = k

C2_IndexDerived ==
  (last.op = "new" \/ succeeded(last)) => indexDerived(rows, index)

\* a successful update has replaced the key of a row by the key of the response
C2_Witness ==
  /\ last.op = "update" /\ last.outcome = "ok"
  /\ "c" \in DOMAIN index
  /\ Len(rows) >= 2

\* C3: after a successful create of a record with key x the index contains x
\* and find(x, keyColumn) returns that record.
C3_CreatedIsFound ==
  (last.op = "create" /\ last.outcome = "ok") =>
    LET found == find(rows, index, last.model[keyColumn], keyColumn) IN
      /\ keyOf(last.model) \in DOMAIN index
      /\ found > 0
      /\ rows[found] = last.record

\* C4: a successful update of a record with row r > 0, in a store that holds
\* an entry whose row field is r, assigns onto that entry, returns that entry
\* and leaves every other entry unchanged.
C4_UpdatesThatEntry ==
  [][(/\ last'.op = "update" /\ last'.outcome = "ok"
      /\ entriesAt(rows, last'.model[rowPosition].n) # {})
     => /\ last'.ret \in entriesAt(rows, last'.model[rowPosition].n)
        /\ \A i \in 1..Len(rows) : i # last'.ret => rows'[i] = rows[i]]_vars

failed(l) == l.op \in {"create", "update"} /\ l.outcome # "ok"

\* C5: a create or update that ends in an error leaves the row list, the
\* field values of every row entry and the key index as they were.
C5_FailureChangesNothing ==
  [][failed(last') => (rows' = rows /\ index' = index)]_vars

\* an update whose request failed although the entry it would assign exists
C5_Witness ==
  /\ last.op = "update" /\ last.outcome = "SheetError"
  /\ last.requests # NoRequests
  /\ updateTarget(rows, last.model) # 0

\* C6: create of a record whose row is not 0 and update of a record whose
\* row is 0 end in an error and issue no remote request.
C6_RowChecked ==
  /\ (last.op = "create" /\ last.model[rowPosition] # Num(0)) =>
       (last.outcome = "SheetError" /\ last.requests = NoRequests)
  /\ (last.op = "update" /\ last.model[rowPosition] = Num(0)) =>
       (last.outcome = "SheetError" /\ last.requests = NoRequests)

\* create was called for a record that has its key and a row other than 0
C6_Witness ==
  /\ last.op = "create" /\ last.entry = "create"
  /\ last.model[rowPosition] # Num(0)
  /\ ~Falsy(last.model[keyColumn])
  /\ last.outcome = "SheetError"

keyNotSet(model) ==
  Get(model, keyColumn).t = "undefined" \/ Get(model, keyColumn) = Str("")

\* C7: create, update and save of a record whose key field is not set end in
\* an error and issue no remote request.
C7_KeyRequired ==
  (last.op \in {"create", "update"} /\ keyNotSet(last.model)) =>
    (last.outcome = "SheetError" /\ last.requests = NoRequests)

\* save was called for a record with an empty key and a row that fits update
C7_Witness ==
  /\ last.entry = "save" /\ last.op = "update"
  /\ last.model[keyColumn] = Str("")
  /\ last.outcome = "SheetError"

\* C8: a save that succeeds has issued exactly one remote request: an update
\* at record.row when record.row is not 0, an append when it is 0.
C8_SaveOneRequest ==
  (last.entry = "save" /\ last.outcome = "ok") =>
    /\ Len(last.requests) = 1
    /\ IF last.model[rowPosition] # Num(0)
         THEN /\ last.requests[1].kind = "update"
              /\ last.requests[1].row = last.model[rowPosition].n
         ELSE last.requests[1].kind = "append"

\* a save that succeeded as an update
C8_Witness ==
  /\ last.entry = "save" /\ last.outcome = "ok" /\ last.op = "update"
  /\ last.requests[1].row = 2

\* C9: the row position that create passes to append is greater than the row
\* number of every row entry of the store.
C9_AppendAfterData ==
  (last.op = "create" /\ last.requests # NoRequests) =>
    \A i \in 1..Len(rows) :
      last.requests[1].row > rows[i][rowPosition].n

\* C10: find on the key column returns what the linear scan for the first
\* row with that key returns.
C10_FindIsScan ==
  (last.op = "find" /\ last.column = keyColumn) =>
    last.ret = scanFind(rows, keyColumn, last.value)

\* position of the last row whose key reads as the text, 0 if none
lastByText(rs, text) ==
  IF \E i \in 1..Len(rs) : keyOf(rs[i]) = text
    THEN CHOOSE i \in 1..Len(rs) :
           /\ keyOf(rs[i]) = text
           /\ \A j \in 1..Len(rs) : keyOf(rs[j]) = text => j <= i
    ELSE 0

stringKeys(rs) == \A i \in 1..Len(rs) : rs[i][keyColumn].t = "string"

uniqueKeys(rs) ==
  \A i, j \in 1..Len(rs) : keyOf(rs[i]) = keyOf(rs[j]) => i = j

\* C10 as amended: find on the key column with a non-empty value whose text
\* is no inherited member name returns the last row whose key reads as the
\* text of the value, not found if there is none; when the keys are distinct
\* strings and the value is a string, that is the result of the linear scan.
C10_FindIsLastByText ==
  (/\ last.op = "find" /\ last.column = keyColumn
   /\ ~Falsy(last.value) /\ toString(last.value) \notin InheritedKeys) =>
    /\ last.ret = lastByText(rows, toString(last.value))
    /\ (uniqueKeys(rows) /\ stringKeys(rows) /\ last.value.t = "string") =>
         last.ret = scanFind(rows, keyColumn, last.value)

\* a lookup of a key that two rows of the store share
C10_Witness ==
  /\ last.op = "find" /\ last.column = keyColumn /\ last.ret > 0
  /\ \E i, j \in 1..Len(rows) :
       i < j /\ keyOf(rows[i]) = toString(last.value)
             /\ keyOf(rows[j]) = toString(last.value)

\* ret is the first position of rs whose field `key` equals value, 0 if none
isFirstWith(rs, key, value, ret) ==
  IF \E i \in 1..Len(rs) : rs[i][key] = value
    THEN /\ ret \in 1..Len(rs)
         /\ rs[ret][key] = value
         /\ \A j \in 1..(ret - 1) : rs[j][key] # value
    ELSE ret = 0

\* C11: find by a column other than the key returns the first row, in the
\* order of the row list, whose field of that name equals the value, and not
\* found when no row matches.
C11_FindByColumnIsScan ==
  (last.op = "find" /\ last.column \notin {"", keyColumn}) =>
    isFirstWith(rows, last.column, last.value, last.ret)

\* C11 as amended: that holds for a value that is not falsy; for a falsy
\* value (such as the empty string) find returns not found without a scan.
C11_FindByColumn ==
  (last.op = "find" /\ last.column \notin {"", keyColumn}) =>
    IF Falsy(last.value) THEN last.ret = 0
    ELSE isFirstWith(rows, last.column, last.value, last.ret)

\* a lookup by name that two rows match: the first of them is returned
C11_Witness ==
  /\ last.op = "find" /\ last.column = "name" /\ last.ret > 0
  /\ \E j \in 1..Len(rows) :
       j > last.ret /\ rows[j]["name"] = last.value

\* C12: find of a number without a column name returns the row entry whose
\* row field is that number, and not found when there is none.
C12_FindNumberByRow ==
  (last.op = "find" /\ last.column = "" /\ last.value.t = "number") =>
    IF entriesAt(rows, last.value.n) # {}
      THEN last.ret \in entriesAt(rows, last.value.n)
      ELSE last.ret = 0

\* the entry of remote row 3 was found by its number
C12_Witness ==
  /\ last.op = "find" /\ last.column = "" /\ last.value = Num(3)
  /\ last.ret > 0 /\ rows[last.ret][rowPosition] = Num(3)

\* the number of leading cells of a grid row that have a formatted value
RECURSIVE leading(_)
leading(cells) ==
  IF cells = <<>> \/ Head(cells) = "" THEN 0 ELSE 1 + leading(Tail(cells))

\* the grid with every row cut after its first n columns
cut(grid, n) ==
  [r \in 1..Len(grid) |->
     SubSeq(grid[r], 1, IF Len(grid[r]) < n THEN Len(grid[r]) ELSE n)]

parsed == last.op = "parse" /\ last.outcome = "ok" /\ Len(remote) >= 1

\* C13: the header returned is exactly the longest prefix of the cells of the
\* first grid row that all have a formatted value, and the columns right of
\* it count neither for the header nor for any data row: every value of a
\* returned row is a cell of a prefix column, and the grid cut after that
\* prefix parses to the same table.
C13_HeaderIsPrefix ==
  parsed =>
    LET n == leading(remote[1]) IN
      /\ tableHeader = SubSeq(remote[1], 1, n)
      /\ \A k \in 1..Len(rows) :
           \A f \in DOMAIN rows[k] \ {rowPosition} :
             \/ rows[k][f] = Undef
             \/ \E i \in 1..n : /\ remote[1][i] = f
                                /\ i <= Len(remote[rows[k][rowPosition].n])
                                /\ rows[k][f] = Str(remote[rows[k][rowPosition].n][i])
      /\ loadTabTable(cut(remote, n), keyColumn) = loadTabTable(remote, keyColumn)

\* a first row with a header cell right of an empty one, and a data row that
\* has a value in a column right of the header
C13_Witness ==
  /\ parsed /\ Len(tableHeader) = 2 /\ Len(remote[1]) = 4
  /\ Len(rows) >= 1
  /\ \E r \in 2..Len(remote) : Len(remote[r]) = 4 /\ remote[r][4] # ""

\* grid row r has no formatted value in any header column
blankRow(r) ==
  \A i \in 1..leading(remote[1]) : i > Len(remote[r]) \/ remote[r][i] = ""

\* the first blank grid row below the header, or one past the grid
firstBlank ==
  IF \E r \in 2..Len(remote) : blankRow(r)
    THEN CHOOSE r \in 2..Len(remote) :
           blankRow(r) /\ \A q \in 2..(r - 1) : ~blankRow(q)
    ELSE Len(remote) + 1

\* the value of header column f in grid row r (header names are distinct)
cellOf(r, f) ==
  LET i == CHOOSE j \in 1..leading(remote[1]) : remote[1][j] = f IN
    IF i <= Len(remote[r]) /\ remote[r][i] # "" THEN Str(remote[r][i]) ELSE Undef

keyless(r) ==
  /\ ~blankRow(r)
  /\ \A i \in 1..leading(remote[1]) :
       remote[1][i] = keyColumn => (i > Len(remote[r]) \/ remote[r][i] = "")

C16_RoundTrip ==
  (/\ last.op = "decode"
   /\ last.value.t \in {"string", "number", "boolean"}
   /\ last.field.t = last.value.t)
    => last.ret = last.value

encodesToNil == {Undef, Null, noDate}

\* C17: undefined, null and the noDate object are encoded as NIL, and no
\* other value is: NIL differs from the encoding of the empty string and of
\* every other value.
C17_NilOnlyForNoValue ==
  last.op = "encode" => (last.text = NIL <=> last.value \in encodesToNil)

\* C17 as amended: the one other value encoded as NIL is the string that is
\* the NIL character itself.
C17_NilForNoValue ==
  last.op = "encode" =>
    (last.text = NIL <=> last.value \in encodesToNil \cup {Str(NIL)})

\* the noDate object was encoded
C17_Witness ==
  last.op = "encode" /\ last.value = noDate /\ last.text = NIL

\* both calls have ended successfully, were in flight together and were for
\* the same row
racedOnOneRow ==
  /\ ended = Calls
  /\ \A c \in Calls : pending[c].outcome = "ok" /\ pending[c].raced
  /\ \A c, d \in Calls : pending[c].model[rowPosition] = pending[d].model[rowPosition]

\* the call whose answer arrived later
laterCall == CHOOSE c \in Calls : \A d \in Calls : pending[d].order <= pending[c].order

\* the value a response text has in a field of the declared type of the row
declared(key, text) == typeCast(NewRow(NoValues), key, text)

\* C18: when two update calls for the same row were in flight together and
\* both ended successfully, the row entry holds the values of the response
\* that arrived later: every field that response carries has its value.
C18_LaterResponseWins ==
  racedOnOneRow =>
    LET call == pending[laterCall]
        e == rows[updateTarget(rows, call.model)]
    IN /\ call.body.kind = "array" =>
            \A i \in 1..Len(call.body.vals) :
              e[RowHeader[i]] = declared(RowHeader[i], call.body.vals[i])
       /\ call.body.kind = "object" =>
            \A i \in 1..Len(call.body.named) :
              call.body.named[i][1] \in Fields =>
                e[call.body.named[i][1]] =
                  declared(call.body.named[i][1], call.body.named[i][2])

\* C19: every failure is a SheetError: no call of create or update on a
\* constructed store ends with another kind of error.
C19_OnlySheetError ==
  last.op \in {"create", "update"} => last.outcome \in {"ok", "SheetError"}

\* C20: a create whose request the transport answered with success fails (with
\* the SheetError) whenever the response lacks updates.updatedRanges, and
\* ends well with the record assigned from the response otherwise; the
\* failing create changes neither the index nor the row list nor the record.
C20_UnconfirmedAppendFails ==
  [][(last'.op = "create" /\ last'.answer \in {"unconfirmed", "confirmed"}) =>
       IF last'.answer = "unconfirmed"
         THEN /\ last'.outcome = "SheetError"
              /\ index' = index /\ rows' = rows /\ remote' = remote
              /\ last'.record = last'.model
         ELSE /\ last'.outcome = "ok"
              /\ \E b \in AppendBodies :
                   /\ b.kind = "object" /\ b.confirmed
                   /\ last'.record = assign(last'.model, b)]_vars

\* an object without updates.updatedRanges came back with raw.ok
C20_Witness ==
  /\ last.op = "create" /\ last.answer = "unconfirmed"
  /\ last.outcome = "SheetError" /\ last.requests # NoRequests

constructed == last.op = "new" /\ last.outcome = "ok"

\* C21: in a constructed store the declared header of every row entry equals
\* the table header; the constructor raises the schema error for a table with
\* rows whose declared header differs from the table header, and never for a
\* table without rows.
C21_HeaderChecked ==
  /\ constructed => \A i \in 1..Len(rows) : header(rows[i]) = tableHeader
  /\ (last.op = "new" /\ last.outcome = "SheetError") => Len(rows) # 0
  /\ (last.op = "new" /\ Len(rows) = 0) => last.outcome = "ok"

C23_CreatedRecordHasRow ==
  (last.op = "create" /\ last.outcome = "ok") =>
    /\ last.record[rowPosition] # Num(0)
    /\ saveUpdates(last.record)

\* C24: the number of row entries never decreases: it stays the same across
\* update, find and every failed call, and grows by exactly one with each
\* create that succeeds (so the next create appends at a greater position).
C24_RowCountGrowsWithCreate ==
  [][IF last'.op = "create" /\ last'.outcome = "ok"
       THEN /\ Len(rows') = Len(rows) + 1
            /\ nextRow(rows') > nextRow(rows)
       ELSE Len(rows') = Len(rows)]_vars

\* C25: assigning list A and then list B leaves the record with the field
\* values that assigning B to a fresh record gives: a field that A left
\* without a value takes the typed value of B's text.
C25_AssignForgetsHistory ==
  (last.op = "assign" /\ Len(last.done) = Cardinality(Assignments)) =>
    rows[1] = assign(NewRow(NoValues), last.done[Len(last.done)])

\* C26: for a field of a supported type, decoding the text that stringer
\* gives for undefined or null (NIL) gives no value again, and a result that
\* differs from decoding the encoded empty string.
C26_NilDecodesToNoValue ==
  (/\ last.op = "decode"
   /\ last.value \in {Undef, Null}
   /\ last.field.t \in {"string", "number", "boolean", "date"})
    => /\ last.ret = Undef
       /\ last.ret # typeCast([f \in {"key"} |-> last.field], "key",
                              Str(stringer(Str(""))))

====
